---- MODULE Spec2Model ----
(***************************************************************************)
(* Model of src/util/mat-gen.py: the Gem5Mappings scheme descriptor with   *)
(* its check_lengths validation, and DRAMFunctions, which builds the DRAM  *)
(* matrix of a scheme, inverts it with numpy's real-number inverse and     *)
(* renders both matrices with the shift/mask metadata.                     *)
(*                                                                         *)
(* Python compiles the whole file before it runs any of it.  Line 216,     *)
(* RoRaBaCoCh = Gem5Mappings("RoRaBaCoCh", , opens a parenthesis that is   *)
(* never closed, so the file as shipped ends in SyntaxError with nothing   *)
(* printed and nothing of lines 209-226 executed.  With line 216 absent    *)
(* the run is the one of lines 209-213 and 218-226: a scheme is filled in, *)
(* check_lengths is called, the banner is printed, and a DRAMFunctions     *)
(* object is built from the scheme and printed.  Both texts are modelled.  *)
(*                                                                         *)
(* np.linalg.inv is modelled in exact rational arithmetic.  The schemes of *)
(* the model are such that floating point gives the same matrix after the  *)
(* truncation of line 122: the entries of the real inverse are there       *)
(* integers reached through pivots of magnitude 1, or halves, or thirds.   *)
(***************************************************************************)
EXTENDS Integers, Sequences, FiniteSets, TLC

VARIABLES
    line216,   \* line 216 of the text given to Python: "unfinished" (the
               \* file as shipped) or "absent"
    scheme,    \* the Gem5Mappings object (lines 172-190, 209-212)
    env,       \* the module's binding of the names num_ranks, num_banks
    pc,        \* position in the script: "compile", "start", "checked",
               \* "banner", "constructed", "printed"; "compile_failed",
               \* "check_failed" and "render_failed" after an uncaught
               \* exception or exit
    fns,       \* the DRAMFunctions object (<<>> before line 220)
    dram_mtx,  \* dram_mtx of __repr__ (line 129)
    mtx,       \* mtx of to_addr_mtx (line 119), as rows of digits
    inv_mtx,   \* inv_mtx of to_addr_mtx (line 122), as rows of integers
    addr_mtx,  \* addr_mtx of __repr__ (line 130)
    stdout,    \* what the run has printed, in order
    err        \* the exception that ended the run, "none" if none

vars == <<line216, scheme, env, pc, fns, dram_mtx, mtx, inv_mtx, addr_mtx, stdout, err>>

(***************************************************************************)
(* Integer helpers.  Python ints are unbounded; every mask of the model is *)
(* below 2^31.                                                             *)
(***************************************************************************)

\* The literal 30 of range(30), f"{x:030b}" and the shape assertion.
MTX_SIZE == 30

\* (v >> x) & 1
Bit(v, x) == (v \div (2 ^ x)) % 2

\* x >= 0 ? x : -x
Abs(x) == IF x < 0 THEN -x ELSE x

\* Makes a sequence given as a function over 1..n a tuple of evaluated entries.
Tup(s) == s \o <<>>

RECURSIVE BitLength(_)
\* Number of binary digits of v (0 for v = 0).
BitLength(v) == IF v = 0 THEN 0 ELSE 1 + BitLength(v \div 2)

RECURSIVE PopCount(_)
\* bin(v).count("1")
PopCount(v) == IF v = 0 THEN 0 ELSE (v % 2) + PopCount(v \div 2)

\* list(reversed(s))
Reversed(s) == Tup([i \in 1..Len(s) |-> s[Len(s) + 1 - i]])

(***************************************************************************)
(* DRAMFunctions.__init__ and its local functions.                         *)
(***************************************************************************)

RECURSIVE BinaryVals(_, _)
\* The list vals of to_binary_array after the loop has run over range(n).
BinaryVals(v, n) ==
    IF n = 0 THEN <<>>
    ELSE LET vals == BinaryVals(v, n - 1)
             x == n - 1
         IN  IF Bit(v, x) = 1 THEN Append(vals, 2 ^ x) ELSE vals

\* to_binary_array without the reversal of line 86.
to_binary_array_unreversed(v) == BinaryVals(v, MTX_SIZE)

to_binary_array(v) == Reversed(BinaryVals(v, MTX_SIZE))

gen_mask(v) ==
    LET len_mask == PopCount(v)
    IN  <<len_mask, (2 ^ len_mask) - 1>>

DRAMFunctions_init(bank_fns, row_fn, col_fn, num_channels, num_dimms, num_ranks, num_banks) ==
    [ row_arr      |-> to_binary_array(row_fn),
      col_arr      |-> to_binary_array(col_fn),
      bank_arr     |-> bank_fns,
      row_shift    |-> 0,
      col_shift    |-> gen_mask(row_fn)[1],
      bank_shift   |-> gen_mask(row_fn)[1] + gen_mask(col_fn)[1],
      row_mask     |-> gen_mask(row_fn)[2],
      col_mask     |-> gen_mask(col_fn)[2],
      bank_mask    |-> (2 ^ Len(bank_fns)) - 1,
      num_channels |-> num_channels,
      num_dimms    |-> num_dimms,
      num_ranks    |-> num_ranks,
      num_banks    |-> num_banks ]

(***************************************************************************)
(* DRAMFunctions.to_dram_mtx                                               *)
(***************************************************************************)

to_dram_mtx(self) == self.bank_arr \o self.col_arr \o self.row_arr

(***************************************************************************)
(* DRAMFunctions.to_addr_mtx                                               *)
(***************************************************************************)

\* The digits of x least significant first.
BinDigits_lsb_first(x) ==
    LET n == IF BitLength(x) > MTX_SIZE THEN BitLength(x) ELSE MTX_SIZE
    IN  Tup([j \in 1..n |-> Bit(x, j - 1)])

\* list(map(int, list(f"{x:030b}"))): the binary digits of x, most
\* significant first, zero-padded to at least 30 digits.
BinDigits(x) ==
    LET n == IF BitLength(x) > MTX_SIZE THEN BitLength(x) ELSE MTX_SIZE
    IN  Tup([j \in 1..n |-> Bit(x, n - j)])

\* The nested list handed to np.array.
DigitRows(dram) == Tup([i \in 1..Len(dram) |-> BinDigits(dram[i])])

\* Whether np.array gets rows of unequal length.
Ragged(rows) == \E i, k \in 1..Len(rows) : Len(rows[i]) # Len(rows[k])

\* A shape check that looks at the row length only.
ShapeOk_columns_only(rows) == \A i \in 1..Len(rows) : Len(rows[i]) = MTX_SIZE

\* mtx.shape == (30, 30) for a non-ragged list of rows.
ShapeOk(rows) ==
    /\ Len(rows) = MTX_SIZE
    /\ \A i \in 1..Len(rows) : Len(rows[i]) = MTX_SIZE

\* The n x n identity as rows.
IdentityRows(n) == Tup([i \in 1..n |-> Tup([j \in 1..n |-> IF i = j THEN 1 ELSE 0])])

\* Row r of m replaced by piv * m[r] - f * m[k].
Eliminate(m, r, k, piv, f) ==
    Tup([j \in 1..Len(m[r]) |-> piv * m[r][j] - f * m[k][j]])

\* Rows k and p of m exchanged.
SwapRows(m, k, p) ==
    IF k = p THEN m
    ELSE Tup([i \in 1..Len(m) |-> IF i = k THEN m[p] ELSE IF i = p THEN m[k] ELSE m[i]])

\* One column of Gauss-Jordan elimination on the augmented rows [A | B]:
\* the pivot row is brought to position k and column k is cleared from every
\* other row.  Rows are kept as integer multiples of the exact rational rows.
\* <<>> stands for "no pivot": the matrix is singular.
GaussStep(m, k) ==
    LET cand == {p \in k..Len(m) : m[p][k] # 0}
    IN  IF cand = {} THEN <<>>
        ELSE LET p == CHOOSE q \in cand : \A q2 \in cand : q <= q2
                 s == SwapRows(m, k, p)
                 piv == s[k][k]
             IN  Tup([i \in 1..Len(s) |->
                        IF i = k \/ s[i][k] = 0 THEN s[i]
                        ELSE Eliminate(s, i, k, piv, s[i][k])])

RECURSIVE GaussJordan(_, _)
GaussJordan(m, k) ==
    IF m = <<>> \/ k > Len(m) THEN m
    ELSE GaussJordan(GaussStep(m, k), k + 1)

\* The augmented rows [A | I] of a square matrix A.
Augment(a) == Tup([i \in 1..Len(a) |-> a[i] \o IdentityRows(Len(a))[i]])

\* The inverse read out with its indices exchanged.
RealInverse_transposed(a) ==
    LET n == Len(a)
        g == GaussJordan(Augment(a), 1)
    IN  IF g = <<>> THEN <<>>
        ELSE Tup([i \in 1..n |-> Tup([j \in 1..n |-> <<g[j][n + i], g[j][j]>>])])

\* np.linalg.inv(mtx) in exact arithmetic, entry (i, j) as the pair
\* <<numerator, denominator>>; <<>> when mtx is singular (LinAlgError).
RealInverse(a) ==
    LET n == Len(a)
        g == GaussJordan(Augment(a), 1)
    IN  IF g = <<>> THEN <<>>
        ELSE Tup([i \in 1..n |-> Tup([j \in 1..n |-> <<g[i][n + j], g[i][i]>>])])

\* abs(float.astype('int64')): truncation toward zero, then absolute value.
AbsTrunc(q) == Abs(q[1]) \div Abs(q[2])

\* list(map(abs, np.linalg.inv(mtx).astype('int64')))
AbsTruncInverse(a) ==
    LET r == RealInverse(a)
    IN  IF r = <<>> THEN <<>>
        ELSE Tup([i \in 1..Len(r) |-> Tup([j \in 1..Len(r) |-> AbsTrunc(r[i][j])])])

RECURSIVE DecimalDigits(_)
\* str(e) for e >= 0, as a sequence of digits.
DecimalDigits(e) ==
    IF e < 10 THEN <<e>> ELSE Append(DecimalDigits(e \div 10), e % 10)

RECURSIVE JoinDigits(_, _)
\* "".join(map(str, row)) over the first n entries of row, as digits.
JoinDigits(row, n) ==
    IF n = 0 THEN <<>> ELSE JoinDigits(row, n - 1) \o DecimalDigits(row[n])

RECURSIVE ParseBase2(_, _)
\* int(s, 2) of the first n digits of s, all of them 0 or 1.
ParseBase2(s, n) ==
    IF n = 0 THEN 0 ELSE 2 * ParseBase2(s, n - 1) + s[n]

\* Whether BinInt("0b" + s, 2) accepts the digit string s.
IsBase2(s) == \A i \in 1..Len(s) : s[i] \in {0, 1}


\* What np.array does with rows of unequal length depends on the numpy
\* build: ValueError (inhomogeneous shape), or an object array of shape (n,)
\* that then fails the shape assertion.
RaggedErrors == {"ValueError", "AssertionError"}

\* The outcomes of to_addr_mtx on self: the error raised ("none" when it
\* returns), whether line 120 printed the matrix, the array mtx (<<>> when
\* np.array raised), the truncated inverse and the returned list of BinInt.
to_addr_mtx(self) ==
    LET dram == to_dram_mtx(self)
        rows == DigitRows(dram)
        fail(e, printed) ==
            [ err |-> e, printed |-> printed, mtx |-> rows, inv_mtx |-> <<>>, inv_arr |-> <<>> ]
    IN  IF Ragged(rows)
        THEN { [ fail(e, e = "AssertionError") EXCEPT
                   !.mtx = IF e = "AssertionError" THEN rows ELSE <<>> ] : e \in RaggedErrors }
        ELSE IF ~ShapeOk(rows) THEN { fail("AssertionError", TRUE) }
        ELSE LET inv == AbsTruncInverse(rows)
                 strs == Tup([i \in 1..Len(inv) |-> JoinDigits(inv[i], Len(inv[i]))])
             IN  IF inv = <<>> THEN { fail("LinAlgError", TRUE) }
                 ELSE IF \E i \in 1..Len(strs) : ~IsBase2(strs[i])
                      THEN { [ fail("ValueError", TRUE) EXCEPT !.inv_mtx = inv ] }
                 ELSE { [ err |-> "none", printed |-> TRUE, mtx |-> rows, inv_mtx |-> inv,
                          inv_arr |-> Tup([i \in 1..Len(strs) |->
                                             ParseBase2(strs[i], Len(strs[i]))]) ] }

(***************************************************************************)
(* DRAMFunctions.__repr__: the fields of the rendered block, in the order  *)
(* the text names them.                                                    *)
(***************************************************************************)

Identifier(self) ==
    <<self.num_channels, self.num_dimms, self.num_ranks, self.num_banks>>

repr(self, dram, addr) ==
    [ IDENTIFIER |-> Identifier(self),
      BK_SHIFT   |-> self.bank_shift,
      BK_MASK    |-> self.bank_mask,
      ROW_SHIFT  |-> self.row_shift,
      ROW_MASK   |-> self.row_mask,
      COL_SHIFT  |-> self.col_shift,
      COL_MASK   |-> self.col_mask,
      DRAM_MTX   |-> dram,
      ADDR_MTX   |-> addr ]

(***************************************************************************)
(* Gem5Mappings.check_lengths.  num_ranks and num_banks are free names of  *)
(* the method, looked up in the module namespace when it runs; e is that   *)
(* namespace (Unbound when the module binds neither name).                 *)
(***************************************************************************)

Unbound == [bound |-> FALSE, num_ranks |-> 0, num_banks |-> 0]

RECURSIVE FloorLog2(_)
FloorLog2(n) == IF n <= 1 THEN 0 ELSE 1 + FloorLog2(n \div 2)

\* Lines 193-194, 197: _expected_functions, the float
\* math.log(num_ranks, 2) + math.log(num_banks, 2), as print() writes it.
\* The texts are those Python gives for the namespaces of the model.
expected_functions(num_ranks, num_banks) ==
    CASE <<num_ranks, num_banks>> = <<2, 16>>  -> "5.0"
      [] <<num_ranks, num_banks>> = <<3, 8>>   -> "4.584962500721156"
      [] <<num_ranks, num_banks>> = <<4, 16>>  -> "6.0"
      [] <<num_ranks, num_banks>> = <<32, 32>> -> "10.0"

\* Line 196: int(_expected_functions)
ExpectedFunctions(num_ranks, num_banks) == FloorLog2(num_ranks * num_banks)

\* "NameError", "exit" (the fatal mismatch, exit(-1)) or "ok" (returns True).
check_lengths(self, e) ==
    IF ~e.bound THEN "NameError"
    ELSE IF ExpectedFunctions(e.num_ranks, e.num_banks) # Len(self.dram_fn) - 1
         THEN "exit"
         ELSE "ok"

(***************************************************************************)
(* The schemes the script is run on.  RoCoRaBaCh is the shipped one; the   *)
(* others change its functions or its topology.                            *)
(***************************************************************************)

\* Largest offset d of the row bit 18 + d XORed into a bank function.
MaxXorBit == 2
\* Largest number of low row bits moved from row_fn to col_fn.
MaxSplit == 2
\* Largest rotation of the bank function list.
MaxRot == 2

\* Lines 209-212: the functions of RoCoRaBaCh
\* (dram_fn 0x80 .. 0x800, 0x40; row_fn 0x3ffc0000; col_fn 0x3f03f).
RoCoRaBaCh ==
    [ num_channels |-> 1, num_dimms |-> 1, num_ranks |-> 2, num_banks |-> 16,
      dram_fn |-> <<128, 256, 512, 1024, 2048, 64>>,
      row_fn  |-> 1073479680,
      col_fn  |-> 258111 ]

\* bank with bit mask m XORed into function k (m is not in bank[k]).
XorAt(bank, k, m) == [bank EXCEPT ![k] = bank[k] + m]

\* bank rotated left by r places.
Rotate(bank, r) == Tup([i \in 1..Len(bank) |-> bank[((i - 1 + r) % Len(bank)) + 1]])

\* The s lowest row bits (18 ..) as a mask.
LowRowBits(s) == (2 ^ (18 + s)) - (2 ^ 18)

\* One bank function XORed with one row bit.
XorSchemes ==
    { [RoCoRaBaCh EXCEPT !.dram_fn = XorAt(@, k, 2 ^ (18 + d))] :
        k \in 1..6, d \in 0..MaxXorBit }

\* Every bank function XORed with its own row bit, and a chain of XORs.
MultiXorSchemes ==
    { [RoCoRaBaCh EXCEPT !.dram_fn =
          <<128 + 2 ^ 18, 256 + 2 ^ 19, 512 + 2 ^ 20, 1024 + 2 ^ 21, 2048 + 2 ^ 22, 64 + 2 ^ 23>>],
      [RoCoRaBaCh EXCEPT !.dram_fn = <<128 + 256, 256 + 512, 512, 1024, 2048, 64>>] }

\* Single-bit schemes: other orders of the bank functions, other row/column splits.
PermutationSchemes ==
    { [RoCoRaBaCh EXCEPT !.dram_fn = Rotate(@, r),
                         !.row_fn = @ - LowRowBits(s),
                         !.col_fn = @ + LowRowBits(s)] :
        r \in 0..MaxRot, s \in 0..MaxSplit }

\* Schemes whose matrix is invertible over GF(2) or over the reals but not
\* with an inverse of entries -1, 0, 1.
\*  - JI4: the four bank functions over bits 6..9 that each leave one out
\*    (real determinant -3);
\*  - Cyc3: three bank functions over bits 6..8 that each leave one out
\*    (real determinant 2);
\*  - Twice: bank functions {8,7,6}, {7,5}, {6,5} (inverse entry 2);
\*  - Block12: bank functions {17..7}, {7,6}, ..., {16,6} (inverse entry 10).
\* In Twice and Block12 every row of the matrix has its own highest bit, so
\* the elimination divides by no pivot other than 1.
JI4 == [RoCoRaBaCh EXCEPT !.dram_fn = <<960 - 64, 960 - 128, 960 - 256, 960 - 512, 1024, 2048>>]
Cyc3 == [RoCoRaBaCh EXCEPT !.dram_fn = <<448 - 64, 448 - 128, 448 - 256, 512, 1024, 2048>>]
Twice == [RoCoRaBaCh EXCEPT !.dram_fn = <<256 + 128 + 64, 128 + 32, 64 + 32, 512, 1024, 2048>>]
Block12 ==
    [RoCoRaBaCh EXCEPT
        !.num_ranks = 32, !.num_banks = 32,
        !.dram_fn = <<(2 ^ 18) - 128>> \o Tup([i \in 1..10 |-> 2 ^ (6 + i) + 64]),
        !.col_fn = 127]
OddSchemes == {JI4, Cyc3, Twice, Block12}

\* Malformed schemes: a repeated or empty bank function, a bank function on
\* a column bit, too few or too many functions, a missing column bit, a bit
\* that row_fn and col_fn share, and bits at position 30.
MalformedSchemes ==
    { [RoCoRaBaCh EXCEPT !.dram_fn[2] = 128],
      [RoCoRaBaCh EXCEPT !.dram_fn[2] = 0],
      [RoCoRaBaCh EXCEPT !.dram_fn[2] = 1],
      [RoCoRaBaCh EXCEPT !.dram_fn = SubSeq(@, 1, 5)],
      [RoCoRaBaCh EXCEPT !.dram_fn = Append(@, 4096)],
      [RoCoRaBaCh EXCEPT !.col_fn = @ - 1],
      [RoCoRaBaCh EXCEPT !.row_fn = @ + 1],
      [RoCoRaBaCh EXCEPT !.dram_fn[1] = 128 + 2 ^ 30],
      [RoCoRaBaCh EXCEPT !.dram_fn[1] = 2 ^ 30],
      [RoCoRaBaCh EXCEPT !.row_fn = @ + 2 ^ 30],
      [RoCoRaBaCh EXCEPT !.col_fn = @ + 2 ^ 30],
      [RoCoRaBaCh EXCEPT !.row_fn = @ - 2 ^ 29 + 2 ^ 30] }

\* The shipped functions under other topologies.
TopologySchemes ==
    { [RoCoRaBaCh EXCEPT !.num_ranks = t[1], !.num_banks = t[2]] :
        t \in {<<2, 8>>, <<4, 16>>, <<3, 16>>, <<1, 32>>} }

Schemes ==
    {RoCoRaBaCh} \cup XorSchemes \cup MultiXorSchemes \cup PermutationSchemes
        \cup OddSchemes \cup MalformedSchemes \cup TopologySchemes

\* The module namespaces check_lengths may run in: the module binds
\* neither num_ranks nor num_banks (lines 163-166 are comments); a namespace
\* that binds them gives them any values.
Envs ==
    {Unbound} \cup
    { [bound |-> TRUE, num_ranks |-> t[1], num_banks |-> t[2]] :
        t \in {<<2, 16>>, <<3, 8>>, <<4, 16>>, <<32, 32>>} }

(***************************************************************************)
(* The script, lines 209-226.                                              *)
(***************************************************************************)

\* The texts Python is given: the file as shipped, whose line 216 is
\* unfinished, and the file with that line absent.
Line216 == {"unfinished", "absent"}

\* The file as shipped describes RoCoRaBaCh and binds neither name.
Init ==
    /\ line216 \in Line216
    /\ scheme \in (IF line216 = "unfinished" THEN {RoCoRaBaCh} ELSE Schemes)
    /\ env \in (IF line216 = "unfinished" THEN {Unbound} ELSE Envs)
    /\ pc = "compile"
    /\ fns = <<>>
    /\ dram_mtx = <<>>
    /\ mtx = <<>>
    /\ inv_mtx = <<>>
    /\ addr_mtx = <<>>
    /\ stdout = <<>>
    /\ err = "none"

\* Compilation of the whole text, before any line runs: the parenthesis
\* opened on line 216 is never closed.
Compile ==
    /\ pc = "compile"
    /\ pc' = IF line216 = "unfinished" THEN "compile_failed" ELSE "start"
    /\ err' = IF line216 = "unfinished" THEN "SyntaxError" ELSE "none"
    /\ UNCHANGED <<line216, scheme, env, fns, dram_mtx, mtx, inv_mtx, addr_mtx, stdout>>

\* Line 213: RoCoRaBaCh.check_lengths()
CheckLengths ==
    /\ pc = "start"
    /\ LET r == check_lengths(scheme, env)
       IN  /\ pc' = IF r = "ok" THEN "checked" ELSE "check_failed"
           /\ err' = IF r = "ok" THEN "none"
                     ELSE IF r = "exit" THEN "SystemExit" ELSE r
           /\ stdout' = IF r = "exit"
                        THEN stdout \o << <<"expected",
                                            expected_functions(env.num_ranks, env.num_banks)>>,
                                          <<"fatal">> >>
                        ELSE stdout
    /\ UNCHANGED <<line216, scheme, env, fns, dram_mtx, mtx, inv_mtx, addr_mtx>>

\* Line 218: the banner.
PrintBanner ==
    /\ pc = "checked"
    /\ pc' = "banner"
    /\ stdout' = Append(stdout, <<"banner">>)
    /\ UNCHANGED <<line216, scheme, env, fns, dram_mtx, mtx, inv_mtx, addr_mtx, err>>

\* The construction run without waiting for check_lengths.
Construct_before_check ==
    /\ pc \in {"start", "banner"}
    /\ fns' = DRAMFunctions_init(scheme.dram_fn, scheme.row_fn, scheme.col_fn,
                                 scheme.num_channels, scheme.num_dimms,
                                 scheme.num_ranks, scheme.num_banks)
    /\ pc' = "constructed"
    /\ UNCHANGED <<line216, scheme, env, dram_mtx, mtx, inv_mtx, addr_mtx, stdout, err>>

\* Lines 220-226: DRAMFunctions(...)
Construct ==
    /\ pc = "banner"
    /\ fns' = DRAMFunctions_init(scheme.dram_fn, scheme.row_fn, scheme.col_fn,
                                 scheme.num_channels, scheme.num_dimms,
                                 scheme.num_ranks, scheme.num_banks)
    /\ pc' = "constructed"
    /\ UNCHANGED <<line216, scheme, env, dram_mtx, mtx, inv_mtx, addr_mtx, stdout, err>>

\* Line 220: print(...) of the object, that is __repr__ and, when it
\* returns, the printing of its text.
Render ==
    /\ pc = "constructed"
    /\ \E r \in to_addr_mtx(fns) :
          LET out == IF r.printed THEN Append(stdout, <<"mtx", r.mtx>>) ELSE stdout
          IN  /\ dram_mtx' = to_dram_mtx(fns)
              /\ mtx' = r.mtx
              /\ inv_mtx' = r.inv_mtx
              /\ addr_mtx' = r.inv_arr
              /\ err' = r.err
              /\ pc' = IF r.err = "none" THEN "printed" ELSE "render_failed"
              /\ stdout' = IF r.err = "none"
                           THEN Append(out, <<"config", repr(fns, to_dram_mtx(fns), r.inv_arr)>>)
                           ELSE out
    /\ UNCHANGED <<line216, scheme, env, fns>>

Next == Compile \/ CheckLengths \/ PrintBanner \/ Construct \/ Render

Spec == Init /\ [][Next]_vars

(***************************************************************************)
(* Vocabulary of the properties.                                           *)
(***************************************************************************)

\* __repr__ has run, to its end or to an exception.
RenderTried == pc \in {"printed", "render_failed"}

\* The attempt ended between np.array and the shape assertion.
ShapeFailure ==
    /\ pc = "render_failed"
    /\ \/ err = "AssertionError"
       \/ err = "ValueError" /\ Len(inv_mtx) = 0

\* The address bits below position n that mask v references.
BitsOf(v, n) == {b \in 0..(n - 1) : Bit(v, b) = 1}

\* The k-th largest and the k-th smallest member of a set of integers.
KthLargest(S, k) == CHOOSE b \in S : Cardinality({c \in S : c > b}) = k - 1
KthSmallest(S, k) == CHOOSE b \in S : Cardinality({c \in S : c < b}) = k - 1

\* The 0/1 matrix a list of 30-bit patterns stands for, most significant
\* bit in the first column.
BitMatrix(arr) == Tup([i \in 1..Len(arr) |-> Tup([j \in 1..MTX_SIZE |-> Bit(arr[i], MTX_SIZE - j)])])

\* The product of two square 0/1 matrices with XOR as addition and AND as
\* multiplication.
RECURSIVE DotGF2(_, _, _, _, _)
DotGF2(a, b, i, j, k) ==
    IF k = 0 THEN 0 ELSE (DotGF2(a, b, i, j, k - 1) + a[i][k] * b[k][j]) % 2
ProductGF2(a, b) ==
    Tup([i \in 1..Len(a) |-> Tup([j \in 1..Len(a) |-> DotGF2(a, b, i, j, Len(a))])])

\* Gaussian elimination mod 2: whether the square 0/1 matrix a has full rank.
GF2Step(m, k) ==
    LET cand == {p \in k..Len(m) : m[p][k] = 1}
    IN  IF cand = {} THEN <<>>
        ELSE LET p == CHOOSE q \in cand : TRUE
                 s == Tup([i \in 1..Len(m) |-> IF i = k THEN m[p] ELSE IF i = p THEN m[k] ELSE m[i]])
             IN  Tup([i \in 1..Len(s) |->
                        IF i = k \/ s[i][k] = 0 THEN s[i]
                        ELSE Tup([j \in 1..Len(s[i]) |-> (s[i][j] + s[k][j]) % 2])])
RECURSIVE GF2Reduce(_, _)
GF2Reduce(m, k) ==
    IF m = <<>> \/ k > Len(m) THEN m ELSE GF2Reduce(GF2Step(m, k), k + 1)
InvertibleGF2(a) == GF2Reduce(a, 1) # <<>>

(***************************************************************************)
(* C1.  Round-trip law as the specification states it: whenever the DRAM   *)
(* matrix is invertible over GF(2) and to_addr_mtx returns, the GF(2)      *)
(* product of the DRAM matrix and the returned address matrix is the       *)
(* identity.  The real-number inverse breaks it (scheme JI4).              *)
(***************************************************************************)
C1_RoundTripLaw ==
    (pc = "printed" /\ InvertibleGF2(mtx))
        => ProductGF2(mtx, BitMatrix(addr_mtx)) = IdentityRows(MTX_SIZE)

(***************************************************************************)
(* C2.  Singularity as the specification states it: once the matrix has    *)
(* passed the shape check, inversion returns an address matrix exactly     *)
(* when the matrix is invertible over GF(2).  The code decides it over the *)
(* reals (scheme Cyc3 returns, scheme Twice is refused).                   *)
(***************************************************************************)
C2_SingularExactlyOverGF2 ==
    (RenderTried /\ ~ShapeFailure)
        => ((pc = "printed") <=> InvertibleGF2(mtx))

(***************************************************************************)
(* C3.  Validation as the specification states it: check_lengths ends in   *)
(* the fatal mismatch exactly when len(dram_fn) differs from               *)
(* log2(num_ranks) + log2(num_banks) of the scheme itself, and returns     *)
(* True otherwise.  The code reads the module's names, not the scheme's,   *)
(* and compares with len(dram_fn) - 1.                                     *)
(***************************************************************************)
C3_MismatchExactly ==
    LET matches == 2 ^ Len(scheme.dram_fn) = scheme.num_ranks * scheme.num_banks
    IN  pc \notin {"compile", "compile_failed", "start"} =>
            /\ (pc = "check_failed" /\ err = "SystemExit") <=> ~matches
            /\ matches => pc # "check_failed"

\* The functions of a scheme in the order of the matrix rows: the bank
\* functions, then the bits of col_fn below position n, then those of
\* row_fn, each field from its highest bit down or from its lowest bit up.
FunctionsHighFirst(sch, n) ==
    sch.dram_fn
        \o Tup([k \in 1..Cardinality(BitsOf(sch.col_fn, n)) |-> 2 ^ KthLargest(BitsOf(sch.col_fn, n), k)])
        \o Tup([k \in 1..Cardinality(BitsOf(sch.row_fn, n)) |-> 2 ^ KthLargest(BitsOf(sch.row_fn, n), k)])
FunctionsLowFirst(sch, n) ==
    sch.dram_fn
        \o Tup([k \in 1..Cardinality(BitsOf(sch.col_fn, n)) |-> 2 ^ KthSmallest(BitsOf(sch.col_fn, n), k)])
        \o Tup([k \in 1..Cardinality(BitsOf(sch.row_fn, n)) |-> 2 ^ KthSmallest(BitsOf(sch.row_fn, n), k)])

\* Every mask of the model is below 2^31.
MaskBits == MTX_SIZE + 1

\* The address bits a scheme references, below position n.
UsedBits(sch, n) ==
    BitsOf(sch.col_fn, n) \cup BitsOf(sch.row_fn, n)
        \cup UNION { BitsOf(sch.dram_fn[i], n) : i \in 1..Len(sch.dram_fn) }

\* W of the specification.
SpecWidth(sch) == Len(sch.dram_fn) + PopCount(sch.col_fn) + PopCount(sch.row_fn)

\* The number of rows to_dram_mtx gives the scheme.
RowCount(sch) ==
    Len(sch.dram_fn) + Cardinality(BitsOf(sch.col_fn, MTX_SIZE))
        + Cardinality(BitsOf(sch.row_fn, MTX_SIZE))

\* Whether every bank function fits 30 binary digits.
BankInRange(sch) == \A i \in 1..Len(sch.dram_fn) : sch.dram_fn[i] < 2 ^ MTX_SIZE

(***************************************************************************)
(* C4.  The forward matrix as the specification states it: for every       *)
(* scheme that is rendered the matrix is W x W, W = len(dram_fn) +         *)
(* popcount(col_fn) + popcount(row_fn), and bit j of row i is set iff the  *)
(* address bit of compacted position j is in function i.  The code fixes   *)
(* the size to 30 and keeps raw bit positions.                             *)
(***************************************************************************)
C4_CompactedSquare ==
    RenderTried =>
        LET W == SpecWidth(scheme)
            used == UsedBits(scheme, MaskBits)
            pos(b) == Cardinality({c \in used : c < b})
            fl == FunctionsHighFirst(scheme, MaskBits)
        IN  /\ ~ShapeFailure
            /\ Len(mtx) = W
            /\ \A i \in 1..Len(mtx) :
                  /\ Len(mtx[i]) = W
                  /\ \A b \in used : mtx[i][W - pos(b)] = 1 <=> b \in BitsOf(fl[i], MaskBits)

(***************************************************************************)
(* C4 as amended: for a scheme of exactly 30 rows, all below 2^30, the     *)
(* matrix is built, is 30 x 30 over {0, 1} with one row per function, and  *)
(* entry (i, j), columns counted from the most significant, is 1 iff raw   *)
(* address bit 30 - j is in function i; for a scheme of any other size no  *)
(* square matrix is built.                                                 *)
(***************************************************************************)
C4_RawSquare ==
    RenderTried =>
        IF RowCount(scheme) = MTX_SIZE /\ BankInRange(scheme)
        THEN LET fl == FunctionsHighFirst(scheme, MTX_SIZE)
             IN  /\ ~ShapeFailure
                 /\ Len(mtx) = MTX_SIZE
                 /\ \A i \in 1..MTX_SIZE :
                       /\ Len(mtx[i]) = MTX_SIZE
                       /\ \A j \in 1..MTX_SIZE :
                             /\ mtx[i][j] \in {0, 1}
                             /\ mtx[i][j] = 1 <=> (MTX_SIZE - j) \in BitsOf(fl[i], MTX_SIZE)
        ELSE pc = "render_failed" /\ ~ShapeOk(mtx)

\* C4's case: a rendered scheme with a function of more than one bit.
C4_Witness ==
    /\ pc = "printed"
    /\ \E i \in 1..Len(scheme.dram_fn) : PopCount(scheme.dram_fn[i]) > 1

(***************************************************************************)
(* C5.  Row order as the specification states it: bank functions, then    *)
(* the bits of col_fn from low to high, then the bits of row_fn from low   *)
(* to high.                                                                *)
(***************************************************************************)
C5_LowToHigh ==
    RenderTried => dram_mtx = FunctionsLowFirst(scheme, MTX_SIZE)

(***************************************************************************)
(* C5 as amended: bank functions in dram_fn order, then one row per set    *)
(* bit of col_fn below position 30 from high to low, then one row per set  *)
(* bit of row_fn below position 30 from high to low.                       *)
(***************************************************************************)
C5_HighToLow ==
    RenderTried => dram_mtx = FunctionsHighFirst(scheme, MTX_SIZE)

\* C5's case: a rendered scheme whose column field has several bits.
C5_Witness ==
    /\ pc = "printed"
    /\ Len(fns.col_arr) > 1
    /\ dram_mtx[Len(scheme.dram_fn) + 1] > dram_mtx[Len(scheme.dram_fn) + 2]

(***************************************************************************)
(* C6.  The dimension error as the specification states it: a scheme whose *)
(* referenced address bits are not exactly W in number fails while the     *)
(* forward matrix is built.                                                *)
(***************************************************************************)
C6_UnionMismatchFails ==
    (RenderTried /\ Cardinality(UsedBits(scheme, MaskBits)) # SpecWidth(scheme))
        => ShapeFailure

(***************************************************************************)
(* C6 as amended: construction fails exactly when the number of rows is    *)
(* not 30 or a bank function has a bit at position 30 or above; a scheme   *)
(* of 30 rows below 2^30 that references fewer than 30 bits passes it and  *)
(* is refused by the inversion as singular.                                *)
(***************************************************************************)
C6_ShapeFailureExactly ==
    RenderTried =>
        /\ ShapeFailure <=> (RowCount(scheme) # MTX_SIZE \/ ~BankInRange(scheme))
        /\ (~ShapeFailure /\ Cardinality(UsedBits(scheme, MTX_SIZE)) # MTX_SIZE)
              => (pc = "render_failed" /\ err = "LinAlgError")

\* C6's case: 30 rows, a bit referenced twice and a bit referenced by none.
C6_Witness ==
    /\ pc = "render_failed"
    /\ RowCount(scheme) = MTX_SIZE
    /\ BankInRange(scheme)
    /\ Cardinality(UsedBits(scheme, MTX_SIZE)) < MTX_SIZE

\* The configuration block the script printed, when it printed one.
ConfigPrinted == \E k \in 1..Len(stdout) : stdout[k][1] = "config"
Config == stdout[Len(stdout)][2]

(***************************************************************************)
(* C7.  Shifts and masks as the specification states them: in every        *)
(* rendered block ROW_SHIFT is 0, COL_SHIFT the row width, BK_SHIFT the    *)
(* row width plus the column width and each mask (1 << width) - 1, the     *)
(* width of a field being the number of matrix rows the field contributes, *)
(* so that the widths sum to the matrix size.  The widths of the code      *)
(* count the bits of row_fn and col_fn at position 30 and above, which     *)
(* contribute no row.                                                      *)
(***************************************************************************)
C7_WidthsAreRowCounts ==
    pc = "printed" =>
        LET rw == Len(fns.row_arr)
            cw == Len(fns.col_arr)
            bw == Len(fns.bank_arr)
        IN  /\ Config.ROW_SHIFT = 0
            /\ Config.COL_SHIFT = rw
            /\ Config.BK_SHIFT = rw + cw
            /\ Config.ROW_MASK = (2 ^ rw) - 1
            /\ Config.COL_MASK = (2 ^ cw) - 1
            /\ Config.BK_MASK = (2 ^ bw) - 1
            /\ rw + cw + bw = Len(Config.DRAM_MTX)

(***************************************************************************)
(* C8.  The address matrix as the specification states it: whenever        *)
(* to_addr_mtx returns, every entry of the inverse it encoded is 0 or 1    *)
(* and every returned row is a pattern of 30 bits.  An entry 10 of the     *)
(* truncated real inverse passes the base-2 parse as two digits (scheme    *)
(* Block12).                                                               *)
(***************************************************************************)
C8_ZeroOneInverse ==
    pc = "printed" =>
        /\ \A i \in 1..Len(inv_mtx) : \A j \in 1..Len(inv_mtx[i]) : inv_mtx[i][j] \in {0, 1}
        /\ \A i \in 1..Len(addr_mtx) : addr_mtx[i] < 2 ^ MTX_SIZE

(***************************************************************************)
(* C9.  Stage order and no partial result: nothing of DRAMFunctions exists *)
(* before check_lengths has returned True; the address matrix exists only  *)
(* with the DRAM matrix; a configuration block is on the output only after *)
(* both matrices are complete, and it carries them; a run that failed in   *)
(* compilation, validation, construction or inversion has printed no       *)
(* block.                                                                  *)
(***************************************************************************)
C9_StagesInOrder ==
    /\ pc \in {"compile", "compile_failed", "start", "check_failed", "checked", "banner"}
          => (DOMAIN fns = {} /\ Len(dram_mtx) = 0 /\ Len(mtx) = 0)
    /\ (DOMAIN fns # {}) => check_lengths(scheme, env) = "ok"
    /\ pc \in {"compile", "compile_failed", "start", "check_failed", "checked",
                "banner", "constructed"}
          => (Len(dram_mtx) = 0 /\ Len(inv_mtx) = 0 /\ Len(addr_mtx) = 0)
    /\ (Len(inv_mtx) > 0 \/ Len(addr_mtx) > 0) => Len(dram_mtx) = MTX_SIZE
    /\ ConfigPrinted =>
          /\ pc = "printed" /\ err = "none"
          /\ Len(dram_mtx) = MTX_SIZE /\ Len(addr_mtx) = MTX_SIZE
          /\ Config.DRAM_MTX = dram_mtx /\ Config.ADDR_MTX = addr_mtx
          /\ \A k \in 1..(Len(stdout) - 1) : stdout[k][1] # "config"
    /\ pc \in {"compile_failed", "check_failed", "render_failed"}
          => (err # "none" /\ ~ConfigPrinted)
    /\ pc = "printed" => ConfigPrinted

\* C9's case: the inversion failed after the forward matrix was built and
\* shown, and no block was printed.
C9_Witness ==
    /\ pc = "render_failed"
    /\ err = "LinAlgError"
    /\ Len(dram_mtx) = MTX_SIZE
    /\ \E k \in 1..Len(stdout) : stdout[k][1] = "mtx"
    /\ ~ConfigPrinted

\* Whether the 0/1 matrix a is a permutation matrix: one 1 in each row, and
\* no two rows alike.
IsPermutationMatrix(a) ==
    /\ Len(a) = MTX_SIZE
    /\ \A i \in 1..Len(a) :
          /\ Len(a[i]) = MTX_SIZE
          /\ Cardinality({j \in 1..MTX_SIZE : a[i][j] = 1}) = 1
    /\ \A i, k \in 1..Len(a) : i # k => a[i] # a[k]

Transpose(a) == Tup([i \in 1..Len(a) |-> Tup([j \in 1..Len(a) |-> a[j][i]])])

(***************************************************************************)
(* C10.  When every function of the scheme is one address bit and the 30   *)
(* bits are distinct, to_addr_mtx returns, and what it returns is the      *)
(* transpose of the DRAM matrix, its inverse over GF(2).                   *)
(***************************************************************************)
C10_PermutationTranspose ==
    (RenderTried /\ IsPermutationMatrix(mtx)) =>
        /\ pc = "printed"
        /\ BitMatrix(addr_mtx) = Transpose(mtx)
        /\ ProductGF2(mtx, BitMatrix(addr_mtx)) = IdentityRows(MTX_SIZE)

\* C10's case: a single-bit scheme other than the shipped one was rendered.
C10_Witness ==
    /\ pc = "printed"
    /\ IsPermutationMatrix(mtx)
    /\ scheme.dram_fn # RoCoRaBaCh.dram_fn
    /\ scheme.row_fn # RoCoRaBaCh.row_fn
====
